---- MODULE Spec2Model ----
(***************************************************************************)
(* Edit distance with transpositions (edit_dist_utils.py) and the Distle   *)
(* player that filters its dictionary with it (distle_player.py).          *)
(*                                                                         *)
(* Strings are sequences of one-character strings.  Python list and string *)
(* subscripts are 0-based and a negative subscript k reads element k + len; *)
(* the code relies on this in several places, so every subscript goes      *)
(* through PyIndex.                                                        *)
(***************************************************************************)
EXTENDS Integers, Sequences, FiniteSets, TLC

\* ---------------------------------------------------------------- bounds
MaxLen == 5          \* longest string fed to the engine
MaxMidLen == 1       \* longest middle string of the triangle inequality
MaxWordLen == 2      \* longest dictionary word of a game
MaxDictSize == 3     \* largest dictionary of a game
MaxGuesses == 2      \* guesses of a game that are followed

Alphabet == {"a", "b"}

StringsUpTo(n) == UNION {[1..k -> Alphabet] : k \in 0..n}

Hack == <<"h", "a", "c", "k">>
Fkc == <<"f", "k", "c">>

\* ------------------------------------------------- Python subscripting
PyIndex(k, n) == IF k < 0 THEN k + n ELSE k

CharAt(s, k) == s[PyIndex(k, Len(s)) + 1]

TableRows(t) == Cardinality(DOMAIN t)

TableCols(t) == Cardinality(DOMAIN t[0])

Cell(t, i, j) == t[PyIndex(i, TableRows(t))][PyIndex(j, TableCols(t))]

Min4(a, b, c, d) ==
    LET m1 == IF a <= b THEN a ELSE b
        m2 == IF c <= d THEN c ELSE d
    IN  IF m1 <= m2 THEN m1 ELSE m2

\* ------------------------------------------------- get_edit_dist_table
\* Lines 32-38: the zero table with row 0 and column 0 filled in.
InitTable(rows, cols) ==
    [i \in 0..rows |-> [j \in 0..cols |->
        IF i = 0 THEN j ELSE IF j = 0 THEN i ELSE 0]]

\* Lines 42-58: the value stored at (row_index, col_index), read from the
\* table as it is at that moment of the fill.
CellValue(memo_table, row_str, col_str, row_index, col_index) ==
    LET rows == Len(row_str)
        cols == Len(col_str)
        delete_value == Cell(memo_table, row_index - 1, col_index) + 1
        insert_value == Cell(memo_table, row_index, col_index - 1) + 1
        replace_value ==
            Cell(memo_table, row_index - 1, col_index - 1)
            + (IF CharAt(row_str, row_index - 1) # CharAt(col_str, col_index - 1)
               THEN 1 ELSE 0)
        transpose_value ==
            IF /\ row_index + col_index > 2
               /\ CharAt(row_str, row_index - 1) = CharAt(col_str, col_index - 2)
               /\ CharAt(row_str, row_index - 2) = CharAt(col_str, col_index - 1)
            THEN Cell(memo_table, row_index - 2, col_index - 2) + 1
            ELSE rows + cols + 1
    IN  Min4(delete_value, insert_value, replace_value, transpose_value)

\* Lines 40-58: the two nested loops, row by row, left to right.
RECURSIVE FillTable(_, _, _, _, _)
FillTable(memo_table, row_str, col_str, row_index, col_index) ==
    IF row_index > Len(row_str) THEN memo_table
    ELSE IF col_index > Len(col_str)
         THEN FillTable(memo_table, row_str, col_str, row_index + 1, 1)
         ELSE FillTable(
                [memo_table EXCEPT ![row_index][col_index] =
                    CellValue(memo_table, row_str, col_str, row_index, col_index)],
                row_str, col_str, row_index, col_index + 1)

get_edit_dist_table(row_str, col_str) ==
    FillTable(InitTable(Len(row_str), Len(col_str)), row_str, col_str, 1, 1)

edit_distance(a, b) ==
    IF a = b THEN 0 ELSE get_edit_dist_table(a, b)[Len(a)][Len(b)]

\* ---------------------------------------------------- get_transformation
\* Lines 179-189: the five values read at a cell, all of them read before
\* any index test.
current_value(t, i, j) == Cell(t, i, j)

delete_value(t, i, j) == Cell(t, i - 1, j)

insert_value(t, i, j) == Cell(t, i, j - 1)

replace_value(a, b, t, i, j) ==
    Cell(t, i - 1, j - 1) + (IF CharAt(a, i - 1) # CharAt(b, j - 1) THEN 1 ELSE 0)

transpose_value(t, i, j) == Cell(t, i - 2, j - 2)

\* Line 193.
ReplaceTaken(a, b, t, i, j) ==
    /\ replace_value(a, b, t, i, j) <= current_value(t, i, j)
    /\ i > 0
    /\ j > 0

\* Lines 198-200.
TransposeTaken(a, b, t, i, j) ==
    /\ ~ReplaceTaken(a, b, t, i, j)
    /\ transpose_value(t, i, j) <= current_value(t, i, j)
    /\ i > 1
    /\ j > 1
    /\ CharAt(a, i - 1) = CharAt(b, j - 2)
    /\ CharAt(a, i - 2) = CharAt(b, j - 1)

\* Line 204.
InsertTaken(a, b, t, i, j) ==
    /\ ~ReplaceTaken(a, b, t, i, j)
    /\ ~TransposeTaken(a, b, t, i, j)
    /\ insert_value(t, i, j) <= current_value(t, i, j)
    /\ j > 0

\* Line 208.
DeleteTaken(a, b, t, i, j) ==
    /\ ~ReplaceTaken(a, b, t, i, j)
    /\ ~TransposeTaken(a, b, t, i, j)
    /\ ~InsertTaken(a, b, t, i, j)
    /\ delete_value(t, i, j) <= current_value(t, i, j)
    /\ i > 0

\* Lines 194-195: a replacement of equal characters appends nothing.
ReplaceEmits(a, b, i, j, transform_list) ==
    IF CharAt(a, i - 1) # CharAt(b, j - 1)
    THEN Append(transform_list, "R") ELSE transform_list

\* Lines 174-213 as a function: the contents of transform_list when the
\* recursion has unwound.  The reversed copy of line 176 and the [] of line
\* 213 are return values that the root call of line 225 drops.
RECURSIVE get_transformation(_, _, _, _, _, _)
get_transformation(a, b, i, j, transform_list, t) ==
    IF i = 0 /\ j = 0 THEN transform_list
    ELSE IF ReplaceTaken(a, b, t, i, j)
    THEN get_transformation(a, b, i - 1, j - 1,
                            ReplaceEmits(a, b, i, j, transform_list), t)
    ELSE IF TransposeTaken(a, b, t, i, j)
    THEN get_transformation(a, b, i - 2, j - 2, Append(transform_list, "T"), t)
    ELSE IF InsertTaken(a, b, t, i, j)
    THEN get_transformation(a, b, i, j - 1, Append(transform_list, "I"), t)
    ELSE IF DeleteTaken(a, b, t, i, j)
    THEN get_transformation(a, b, i - 1, j, Append(transform_list, "D"), t)
    ELSE transform_list

Repeat(op, n) == [k \in 1..n |-> op]

\* Lines 148-227.
transformation_list_with_table(a, b, complete_list, table) ==
    IF Len(b) <= 0 THEN complete_list \o Repeat("D", Len(a))
    ELSE IF Len(a) <= 0 THEN complete_list \o Repeat("I", Len(b))
    ELSE get_transformation(a, b, Len(a), Len(b), complete_list, table)

\* Line 129: the table argument is not used, the table is built again.
get_transformation_list_with_table(a, b, table) ==
    transformation_list_with_table(a, b, <<>>, get_edit_dist_table(a, b))

\* Line 115.
get_transformation_list(a, b) ==
    get_transformation_list_with_table(a, b, get_edit_dist_table(a, b))

\* ================================================================ state
VARIABLES pc,                 \* engine: position of the call in progress
    call,                     \* engine: the function that was called
    s0, s1,                   \* engine: the two strings of the call
    mid,                      \* engine: middle string of the measurement
    dist,                     \* engine: distances returned by edit_distance
    tableArg,                 \* engine: table handed to ..._with_table
    tableBuilds,              \* engine: get_edit_dist_table calls made inside
                              \*         get_transformation_list_with_table
    memo_table,               \* engine: table the backtrace reads
    row_index, col_index,     \* engine: cell of the backtrace
    complete_transform_list,  \* engine: the list the backtrace appends to
    failed,                   \* engine: line 213 was reached
    gpc,                      \* player: "new", "playing"
    secret,                   \* game: the word to find
    dictionary,               \* player: self.dictionary
    new_dict,                 \* player: self.new_dict
    total_guesses,            \* player: self.total_guesses
    first_match,              \* player: self.first_match
    lastGuess,                \* player: value returned by the last make_guess
    feedback,                 \* player: arguments and pre-state of the last get_feedback
    honest                    \* game: every feedback so far was computed from secret

engineVars == <<pc, call, s0, s1, mid, dist, tableArg, tableBuilds, memo_table,
                row_index, col_index, complete_transform_list, failed>>

playerVars == <<gpc, secret, dictionary, new_dict, total_guesses, first_match,
                lastGuess, feedback, honest>>

vars == <<engineVars, playerVars>>

NoTable == <<>>

NoFeedback == [called |-> FALSE]

EngineIdle ==
    /\ pc = "off"
    /\ call = "none"
    /\ s0 = <<>> /\ s1 = <<>> /\ mid = <<>>
    /\ dist = <<>>
    /\ tableArg = NoTable /\ tableBuilds = 0 /\ memo_table = NoTable
    /\ row_index = 0 /\ col_index = 0
    /\ complete_transform_list = <<>>
    /\ failed = FALSE

PlayerIdle ==
    /\ gpc = "off"
    /\ secret = <<>>
    /\ dictionary = {} /\ new_dict = {}
    /\ total_guesses = 0
    /\ first_match = <<>>
    /\ lastGuess = <<>>
    /\ feedback = NoFeedback
    /\ honest = TRUE

\* ================================================================ engine
EngineInputs ==
    (StringsUpTo(MaxLen) \X StringsUpTo(MaxLen))
        \cup {<<Hack, Fkc>>, <<Fkc, Hack>>}

Init ==
    /\ PlayerIdle
    /\ \E p \in EngineInputs : s0 = p[1] /\ s1 = p[2]
    /\ pc = "idle"
    /\ call = "none"
    /\ mid = <<>>
    /\ dist = <<>>
    /\ tableArg = NoTable /\ tableBuilds = 0 /\ memo_table = NoTable
    /\ row_index = 0 /\ col_index = 0
    /\ complete_transform_list = <<>>
    /\ failed = FALSE

\* edit_distance called on (s0, s1), (s1, s0), (s0, m) and (m, s1).
EditDistance(m) ==
    /\ pc = "idle"
    /\ pc' = "measured"
    /\ call' = "edit_distance"
    /\ mid' = m
    /\ dist' = [d01 |-> edit_distance(s0, s1),
                d10 |-> edit_distance(s1, s0),
                d0m |-> edit_distance(s0, m),
                dm1 |-> edit_distance(m, s1)]
    /\ UNCHANGED <<s0, s1, tableArg, tableBuilds, memo_table, row_index,
                   col_index, complete_transform_list, failed, playerVars>>

\* Lines 129 and 148-150: entry of get_transformation_list_with_table with
\* the table `table`; the caller's table is dropped and a new one is built.
EnterWithTable(table) ==
    /\ pc' = "root"
    /\ tableArg' = table
    /\ tableBuilds' = 1
    /\ memo_table' = get_edit_dist_table(s0, s1)
    /\ row_index' = Len(s0)
    /\ col_index' = Len(s1)
    /\ complete_transform_list' = <<>>
    /\ UNCHANGED <<s0, s1, mid, dist, failed, playerVars>>

\* Line 115.
GetTransformationList ==
    /\ pc = "idle"
    /\ call' = "get_transformation_list"
    /\ EnterWithTable(get_edit_dist_table(s0, s1))

\* A caller that has the table of (s0, s1) already.
GetTransformationListWithTable ==
    /\ pc = "idle"
    /\ call' = "get_transformation_list_with_table"
    /\ EnterWithTable(get_edit_dist_table(s0, s1))

\* Lines 216-225: the branch taken on the lengths.
RootDispatch ==
    /\ pc = "root"
    /\ pc' = IF col_index <= 0 THEN "empty_D"
             ELSE IF row_index <= 0 THEN "empty_I" ELSE "trace"
    /\ UNCHANGED <<call, s0, s1, mid, dist, tableArg, tableBuilds, memo_table,
                   row_index, col_index, complete_transform_list, failed,
                   playerVars>>

\* Lines 217-219, one iteration, and the exit of the loop.
EmptyDelete ==
    /\ pc = "empty_D"
    /\ IF row_index > 0
       THEN /\ complete_transform_list' = Append(complete_transform_list, "D")
            /\ row_index' = row_index - 1
            /\ pc' = pc
       ELSE /\ pc' = "done"
            /\ UNCHANGED <<complete_transform_list, row_index>>
    /\ UNCHANGED <<call, s0, s1, mid, dist, tableArg, tableBuilds, memo_table,
                   col_index, failed, playerVars>>

\* Lines 221-223, one iteration, and the exit of the loop.
EmptyInsert ==
    /\ pc = "empty_I"
    /\ IF col_index > 0
       THEN /\ complete_transform_list' = Append(complete_transform_list, "I")
            /\ col_index' = col_index - 1
            /\ pc' = pc
       ELSE /\ pc' = "done"
            /\ UNCHANGED <<complete_transform_list, col_index>>
    /\ UNCHANGED <<call, s0, s1, mid, dist, tableArg, tableBuilds, memo_table,
                   row_index, failed, playerVars>>

traceFrame == <<call, s0, s1, mid, dist, tableArg, tableBuilds, memo_table, playerVars>>

AtCell == pc = "trace" /\ ~(row_index = 0 /\ col_index = 0)

\* Lines 175-176: the reversed copy is returned to line 225, which drops it.
BaseCase ==
    /\ pc = "trace"
    /\ row_index = 0 /\ col_index = 0
    /\ pc' = "done"
    /\ UNCHANGED <<row_index, col_index, complete_transform_list, failed, traceFrame>>

\* Lines 193-196.
TakeReplace ==
    /\ AtCell
    /\ ReplaceTaken(s0, s1, memo_table, row_index, col_index)
    /\ complete_transform_list' =
          ReplaceEmits(s0, s1, row_index, col_index, complete_transform_list)
    /\ row_index' = row_index - 1
    /\ col_index' = col_index - 1
    /\ UNCHANGED <<pc, failed, traceFrame>>

\* Lines 198-202.
TakeTranspose ==
    /\ AtCell
    /\ TransposeTaken(s0, s1, memo_table, row_index, col_index)
    /\ complete_transform_list' = Append(complete_transform_list, "T")
    /\ row_index' = row_index - 2
    /\ col_index' = col_index - 2
    /\ UNCHANGED <<pc, failed, traceFrame>>

\* Lines 204-206.
TakeInsert ==
    /\ AtCell
    /\ InsertTaken(s0, s1, memo_table, row_index, col_index)
    /\ complete_transform_list' = Append(complete_transform_list, "I")
    /\ col_index' = col_index - 1
    /\ UNCHANGED <<pc, row_index, failed, traceFrame>>

\* Lines 208-210.
TakeDelete ==
    /\ AtCell
    /\ DeleteTaken(s0, s1, memo_table, row_index, col_index)
    /\ complete_transform_list' = Append(complete_transform_list, "D")
    /\ row_index' = row_index - 1
    /\ UNCHANGED <<pc, col_index, failed, traceFrame>>

\* Lines 212-213: nothing is eligible; [] is returned to line 225, which
\* drops it, and line 227 returns the list as appended so far.
NoCandidate ==
    /\ AtCell
    /\ ~ReplaceTaken(s0, s1, memo_table, row_index, col_index)
    /\ ~TransposeTaken(s0, s1, memo_table, row_index, col_index)
    /\ ~InsertTaken(s0, s1, memo_table, row_index, col_index)
    /\ ~DeleteTaken(s0, s1, memo_table, row_index, col_index)
    /\ failed' = TRUE
    /\ pc' = "done"
    /\ UNCHANGED <<row_index, col_index, complete_transform_list, traceFrame>>

Next ==
    \/ \E m \in StringsUpTo(MaxMidLen) : EditDistance(m)
    \/ GetTransformationList
    \/ GetTransformationListWithTable
    \/ RootDispatch
    \/ EmptyDelete
    \/ EmptyInsert
    \/ BaseCase
    \/ TakeReplace
    \/ TakeTranspose
    \/ TakeInsert
    \/ TakeDelete
    \/ NoCandidate

Spec == Init /\ [][Next]_vars

\* ======================================================= engine properties
Returned == pc = "done"

\* C1: for all strings s0 and s1, edit_distance(s0, s1) equals the length of
\* the list returned by get_transformation_list(s0, s1).
C1_DistanceIsListLength ==
    (Returned /\ call = "get_transformation_list")
        => edit_distance(s0, s1) = Len(complete_transform_list)

\* C2: triangle inequality, edit_distance(s0, s1) is at most
\* edit_distance(s0, m) + edit_distance(m, s1) for every middle string m.
C2_TriangleInequality ==
    pc = "measured" => dist.d01 <= dist.d0m + dist.dm1

\* The operation line 193-210 choose at cell (i, j) of table t, "match" for
\* the diagonal move that appends nothing, "none" for line 213.
ChosenAt(a, b, t, i, j) ==
    IF ReplaceTaken(a, b, t, i, j)
    THEN (IF CharAt(a, i - 1) # CharAt(b, j - 1) THEN "R" ELSE "match")
    ELSE IF TransposeTaken(a, b, t, i, j) THEN "T"
    ELSE IF InsertTaken(a, b, t, i, j) THEN "I"
    ELSE IF DeleteTaken(a, b, t, i, j) THEN "D"
    ELSE "none"

\* The operations met on the way down from cell (i, j), the one chosen at
\* (i, j) first; <<"none">> is appended where the way does not reach (0, 0).
RECURSIVE TopDown(_, _, _, _, _)
TopDown(a, b, t, i, j) ==
    IF i = 0 /\ j = 0 THEN <<>>
    ELSE IF j = 0 THEN <<"D">> \o TopDown(a, b, t, i - 1, j)
    ELSE IF i = 0 THEN <<"I">> \o TopDown(a, b, t, i, j - 1)
    ELSE LET op == ChosenAt(a, b, t, i, j)
         IN  CASE op = "R" -> <<"R">> \o TopDown(a, b, t, i - 1, j - 1)
               [] op = "match" -> TopDown(a, b, t, i - 1, j - 1)
               [] op = "T" -> <<"T">> \o TopDown(a, b, t, i - 2, j - 2)
               [] op = "I" -> <<"I">> \o TopDown(a, b, t, i, j - 1)
               [] op = "D" -> <<"D">> \o TopDown(a, b, t, i - 1, j)
               [] OTHER -> <<"none">>

\* C3: get_transformation_list returns the operations in top-down order, the
\* one chosen at (len(s0), len(s1)) first and the one that reaches (0, 0)
\* last; it returns [T, R, D] for ("hack", "fkc") and [T, R, I] for
\* ("fkc", "hack").
C3_TopDownOrder ==
    (Returned /\ call = "get_transformation_list")
        => /\ complete_transform_list
                = TopDown(s0, s1, memo_table, Len(s0), Len(s1))
           /\ row_index = 0 /\ col_index = 0
           /\ (s0 = Hack /\ s1 = Fkc) => complete_transform_list = <<"T", "R", "D">>
           /\ (s0 = Fkc /\ s1 = Hack) => complete_transform_list = <<"T", "R", "I">>

\* C5: get_transformation_list_with_table runs the backtrace over the table
\* passed as argument and never calls get_edit_dist_table.
C5_UsesSuppliedTable ==
    (call = "get_transformation_list_with_table" /\ pc # "idle")
        => tableBuilds = 0 /\ memo_table = tableArg

\* C6: edit_distance(s0, s1) = edit_distance(s1, s0).
C6_Symmetric ==
    pc = "measured" => dist.d01 = dist.d10

\* The recurrence of the table at cell (i, j), i >= 1 and j >= 1, with the
\* transposition term only where i > 1 and j > 1.
Recurrence(t, row_str, col_str, i, j) ==
    LET del == t[i - 1][j] + 1
        ins == t[i][j - 1] + 1
        rep == t[i - 1][j - 1] + (IF row_str[i] # col_str[j] THEN 1 ELSE 0)
        tra == IF /\ i > 1
                  /\ j > 1
                  /\ row_str[i] = col_str[j - 1]
                  /\ row_str[i - 1] = col_str[j]
               THEN t[i - 2][j - 2] + 1
               ELSE del
    IN  Min4(del, ins, rep, tra)

\* C7: the table has table[0][j] = j, table[i][0] = i and every other cell is
\* the minimum of the delete, insert, replace and transpose terms, the
\* transpose term taking part only when i > 1, j > 1 and the two pairs of
\* characters are swapped.
C7_TableRecurrence ==
    memo_table # NoTable
        => /\ \A j \in 0..Len(s1) : memo_table[0][j] = j
           /\ \A i \in 0..Len(s0) : memo_table[i][0] = i
           /\ \A i \in 1..Len(s0) : \A j \in 1..Len(s1) :
                 memo_table[i][j] = Recurrence(memo_table, s0, s1, i, j)

EmitsT ==
    /\ pc = "trace"
    /\ complete_transform_list' = Append(complete_transform_list, "T")

\* C8: the backtrace emits 'T' and moves to (i-2, j-2) only if i > 1, j > 1,
\* s0[i-1] = s1[j-2], s0[i-2] = s1[j-1] and table[i-2][j-2] + 1 <= table[i][j].
C8_TransposeOnMinimalPath ==
    [][EmitsT =>
          /\ row_index > 1
          /\ col_index > 1
          /\ s0[row_index] = s1[col_index - 1]
          /\ s0[row_index - 1] = s1[col_index]
          /\ memo_table[row_index - 2][col_index - 2] + 1
                <= memo_table[row_index][col_index]]_vars

\* C9: for non-empty s0 and s1 the backtrace takes a candidate at every cell
\* other than (0, 0), never reaches line 213, never moves to a negative
\* index and ends at (0, 0).
C9_BacktraceReachesOrigin ==
    (s0 # <<>> /\ s1 # <<>> /\ pc \in {"trace", "done"})
        => /\ ~failed
           /\ row_index >= 0
           /\ col_index >= 0
           /\ AtCell => ChosenAt(s0, s1, memo_table, row_index, col_index) # "none"
           /\ Returned => (row_index = 0 /\ col_index = 0)

\* The step machine and the function get_transformation_list agree.
StepsAgreeWithFunction ==
    Returned => complete_transform_list = get_transformation_list(s0, s1)

\* ================================================================ player
Words == StringsUpTo(MaxWordLen) \ {<<>>}

RECURSIVE SubsetsUpTo(_, _)
SubsetsUpTo(S, k) ==
    IF k = 0 THEN {{}}
    ELSE LET smaller == SubsetsUpTo(S, k - 1)
         IN  smaller \cup {p \cup {w} : p \in smaller, w \in S}

\* The dictionaries a game is started with.
Dictionaries == SubsetsUpTo(Words, MaxDictSize) \ {{}}

\* The orders in which Python may iterate over the set D.
IterationOrders(D) ==
    {order \in [1..Cardinality(D) -> D] :
        \A i, j \in 1..Cardinality(D) : order[i] = order[j] => i = j}

Range(f) == {f[k] : k \in DOMAIN f}

RECURSIVE Flatten(_)
Flatten(ws) == IF ws = <<>> THEN <<>> ELSE Head(ws) \o Flatten(Tail(ws))

\* Lines 38-52: the first length, in order of first appearance, whose count
\* is the highest.
most_common_length(order) ==
    LET count(l) == Cardinality({k \in DOMAIN order : Len(order[k]) = l})
        highest(k) == \A m \in DOMAIN order : count(Len(order[m])) <= count(Len(order[k]))
        first == CHOOSE k \in DOMAIN order :
                    /\ highest(k)
                    /\ \A m \in 1..(k - 1) : ~highest(m)
    IN  Len(order[first])

\* Line 54.
matching_words(order) ==
    LET length == most_common_length(order)
        HasLength(word) == Len(word) = length
    IN  SelectSeq(order, HasLength)

\* Lines 57-67: the letters of the matching words sorted by count, highest
\* first, ties in order of first appearance (sorted is stable), cut to
\* most_common_length letters.
common_letters(order) ==
    LET letters == Flatten(matching_words(order))
        count(x) == Cardinality({k \in DOMAIN letters : letters[k] = x})
        firstAt(x) == CHOOSE k \in DOMAIN letters :
                        /\ letters[k] = x
                        /\ \A m \in 1..(k - 1) : letters[m] # x
        before(y, x) == \/ count(y) > count(x)
                        \/ count(y) = count(x) /\ firstAt(y) < firstAt(x)
    IN  {x \in Range(letters) :
            Cardinality({y \in Range(letters) : before(y, x)})
                < most_common_length(order)}

\* Line 70.
best_words(order) ==
    {word \in Range(matching_words(order)) :
        \A letter \in common_letters(order) : letter \in Range(word)}

\* Line 72: the words random.choice may return.
FirstMatchChoices(order) ==
    IF best_words(order) # {} THEN best_words(order)
    ELSE Range(matching_words(order))

GameInit ==
    /\ EngineIdle
    /\ gpc = "new"
    /\ secret = <<>>
    /\ dictionary = {} /\ new_dict = {}
    /\ total_guesses = 0
    /\ first_match = <<>>
    /\ lastGuess = <<>>
    /\ feedback = NoFeedback
    /\ honest = TRUE

\* Lines 33-72; the game draws its secret word from the dictionary.
StartNewGame ==
    /\ gpc = "new"
    /\ \E D \in Dictionaries :
          /\ secret' \in D
          /\ dictionary' = D
          /\ new_dict' = D
          /\ \E order \in IterationOrders(D) :
                first_match' \in FirstMatchChoices(order)
    /\ total_guesses' = 0
    /\ gpc' = "ready"
    /\ UNCHANGED <<lastGuess, feedback, honest, engineVars>>

\* Lines 90-95 when a word is returned.
MakeGuess ==
    /\ gpc = "ready"
    /\ total_guesses < MaxGuesses
    /\ total_guesses' = total_guesses + 1
    /\ IF total_guesses = 0
       THEN lastGuess' = first_match
       ELSE lastGuess' \in dictionary
    /\ gpc' = "guessed"
    /\ UNCHANGED <<secret, dictionary, new_dict, first_match, feedback, honest,
                   engineVars>>

\* Lines 94-95 with an empty self.dictionary: random.choice raises IndexError
\* after the counter was incremented.
MakeGuessFails ==
    /\ gpc = "ready"
    /\ total_guesses # 0
    /\ dictionary = {}
    /\ total_guesses' = total_guesses + 1
    /\ gpc' = "IndexError"
    /\ UNCHANGED <<secret, dictionary, new_dict, first_match, lastGuess,
                   feedback, honest, engineVars>>

Reversed(list) == [k \in 1..Len(list) |-> list[Len(list) + 1 - k]]

\* Line 120 with the two strings exchanged in the call.
KeptWordsSwapped(dict, guess, transforms) ==
    {word \in dict : transforms = get_transformation_list(word, guess)}

\* Line 120 comparing with the bottom-up list.
KeptWordsBottomUp(dict, guess, transforms) ==
    {word \in dict : transforms = Reversed(get_transformation_list(guess, word))}

\* Line 120: the set comprehension.
KeptWords(dict, guess, transforms) ==
    {word \in dict : transforms = get_transformation_list(guess, word)}

\* Lines 98-121.  The game computes the feedback for the guess against the
\* word `against`, which differs from the guess (the guess was incorrect);
\* edit_dist is not read by the player.
GetFeedback(guess, against) ==
    /\ gpc = "guessed"
    /\ guess = lastGuess
    /\ against # guess
    /\ LET edit_dist == edit_distance(guess, against)
           transforms == get_transformation_list(guess, against)
       IN  /\ dictionary' = KeptWords(dictionary, guess, transforms)
           /\ feedback' = [called |-> TRUE, guess |-> guess,
                           edit_dist |-> edit_dist, transforms |-> transforms,
                           before |-> dictionary]
           /\ honest' = (honest /\ transforms = get_transformation_list(guess, secret))
    /\ gpc' = "ready"
    /\ UNCHANGED <<secret, new_dict, total_guesses, first_match, lastGuess,
                   engineVars>>

GameNext ==
    \/ StartNewGame
    \/ MakeGuess
    \/ MakeGuessFails
    \/ \E guess \in new_dict : \E against \in new_dict : GetFeedback(guess, against)

GameSpec == GameInit /\ [][GameNext]_vars

\* ======================================================= player properties
SameList(x, y) == Len(x) = Len(y) /\ \A k \in 1..Len(x) : x[k] = y[k]

\* C4: after get_feedback(guess, edit_dist, transforms) the working
\* dictionary is exactly the set of words w of the previous working
\* dictionary whose get_transformation_list(guess, w) has the length, the
\* symbols and the order of transforms; no word is added, no matching word
\* is dropped.
C4_FeedbackKeepsExactlyMatches ==
    (feedback.called /\ gpc = "ready")
        => /\ dictionary \subseteq feedback.before
           /\ \A w \in feedback.before :
                 w \in dictionary
                    <=> SameList(get_transformation_list(feedback.guess, w),
                                 feedback.transforms)

\* A feedback that dropped a word and kept another one.
C4_Witness ==
    /\ feedback.called
    /\ gpc = "ready"
    /\ dictionary # {}
    /\ dictionary # feedback.before
    /\ feedback.transforms # <<>>

\* C10: in a game whose secret is in the dictionary and whose every feedback
\* is get_transformation_list(guess, secret), the secret stays in the working
\* dictionary, which is therefore never empty, and make_guess has a word to
\* choose.
C10_SecretSurvives ==
    (gpc # "new" /\ honest)
        => /\ secret \in dictionary
           /\ dictionary # {}
           /\ gpc # "IndexError"

\* An honest game in which two feedbacks were given and words were dropped.
C10_Witness ==
    /\ honest
    /\ feedback.called
    /\ gpc = "ready"
    /\ total_guesses = 2
    /\ secret \in dictionary
    /\ dictionary # new_dict
    /\ lastGuess # first_match

====
